---------------------------- MODULE Spec2Model ----------------------------
(***************************************************************************)
(* A model of lib/wimpy/wimpy.py: the Session object (its login state, its *)
(* single request choke point, the generic fetch-and-normalize routine     *)
(* _map_request, search) together with the Favorites and User sub-clients  *)
(* and the response normalizers.                                           *)
(*                                                                         *)
(* Python values are modelled as follows.  Strings are TLA+ strings.       *)
(* Objects (models, lists, dicts read from JSON) are records; a Python     *)
(* list is the record PyList(seq) so that a list and a single model can    *)
(* be told apart.  TLC cannot compare a string with a record, so Python's  *)
(* None is written None where a string may stand (session_id, an id) and   *)
(* NoneObj where an object may stand (user, items, parse).                 *)
(*                                                                         *)
(* An operation is synchronous and blocking: one action is one whole call. *)
(* The call leaves what it sent, what the transport answered and what it   *)
(* returned or raised in the variables op, sent, resp and result; the      *)
(* caller then takes the outcome (Return) before the next call.            *)
(***************************************************************************)
EXTENDS Integers, Sequences, FiniteSets, TLC

VARIABLES
    session_id,     \* Session.session_id
    country_code,   \* Session.country_code
    user,           \* Session.user: NoneObj or a User
    api,            \* Session.api_location and Session.api_token
    quality,        \* Session._config.quality
    py3,            \* the interpreter: TRUE on Python 3, FALSE on Python 2
    pc,             \* "idle": no call in progress; "done": a call has ended
    op,             \* the call that has ended: its name and arguments
    sent,           \* the HTTP requests that call issued, in order
    resp,           \* what the transport answered to that call
    result,         \* what that call returned or raised
    pre,            \* the session as it was when that call began
    lastLogin       \* the body of the most recent login that returned

vars == <<session_id, country_code, user, api, quality, py3,
          pc, op, sent, resp, result, pre, lastLogin>>

-----------------------------------------------------------------------------
(* Python values *)

None == "<None>"

NoneObj == [cls |-> "NoneType"]

PyList(seq) == [cls |-> "list", elems |-> seq]

\* Truth value of a string-or-None: None and '' are false.
Truthy(v) == v # None /\ v # ""

\* str.startswith
StartsWith(s, prefix) ==
    Len(s) >= Len(prefix) /\ SubSeq(s, 1, Len(prefix)) = prefix

\* The outcome of a call: a returned value or a raised exception.
Returned(v) == [raised |-> FALSE, value |-> v]

Raised(e) == [raised |-> TRUE, error |-> e]

-----------------------------------------------------------------------------
(* Module constants and Config *)

WIMP_API == [location |-> "https://play.wimpmusic.com/v1/", token |-> "rQtt0XAsYjXYIlml"]

TIDAL_API == [location |-> "https://listen.tidalhifi.com/v1/", token |-> "P5Xbeo5LFvESeDy6"]

Quality == [lossless |-> "LOSSLESS", high |-> "HIGH", low |-> "LOW"]

\* Config: the class defaults, overridden by the keyword arguments given.
Config(kwargs) ==
    [k \in {"api", "country_code", "quality", "session_id", "user_id"} |->
        IF k \in DOMAIN kwargs THEN kwargs[k]
        ELSE CASE k = "api" -> WIMP_API
               [] k = "country_code" -> "NO"
               [] k = "quality" -> Quality.high
               [] k = "session_id" -> None
               [] k = "user_id" -> None]

\* urljoin(base, path) for a base ending in '/' and a relative path.
urljoin(base, path) == base \o path

\* '%s' % v
Str(v) == IF v = None THEN "None" ELSE v

\* User(session, id): the id and the Favorites client bound to it.
Favorites(user_id) ==
    [cls |-> "Favorites", base_url |-> "users/" \o Str(user_id) \o "/favorites"]

User(id) == [cls |-> "User", id |-> id, favorites |-> Favorites(id)]

\* The three attributes a login sets, as one record.
Sess == [session_id |-> session_id, country_code |-> country_code, user |-> user]

-----------------------------------------------------------------------------
(* The transport (requests): responses and their status tests *)

\* A response: a transport failure (no response at all), or a status with
\* a body: "empty" (no content), "text" (content that is not JSON) or
\* "json" (content that decodes to the JSON value json).
TransportFailure == [failed |-> TRUE]

Response(status, body, json) ==
    [failed |-> FALSE, status |-> status, body |-> body, json |-> json]

NoBody(status) == Response(status, "empty", NoneObj)

TextBody(status) == Response(status, "text", NoneObj)

JsonBody(status, json) == Response(status, "json", json)

\* Response.raise_for_status raises HTTPError for 4xx and 5xx.
IsHTTPError(r) == 400 <= r.status /\ r.status < 600

\* Response.ok: raise_for_status did not raise.
Ok(r) == ~IsHTTPError(r)

\* Response.json() raises ValueError unless the body decodes.
IsJson(r) == r.body = "json"

\* Response.content is non-empty.
HasContent(r) == r.body # "empty"


-----------------------------------------------------------------------------
(* Session.__init__, login, check_login *)

\* Session.__init__(config): the attributes a new Session holds.
SessionInit(config) ==
    [session_id |-> config.session_id,
     country_code |-> config.country_code,
     api |-> config.api,
     quality |-> config.quality,
     user |-> IF Truthy(config.user_id) THEN User(config.user_id) ELSE NoneObj]

\* What a call leaves behind: the session, the requests issued, the outcome.
Outcome(s, reqs, res) == [sess |-> s, sent |-> reqs, result |-> res]

Request(method, url, params, data) ==
    [method |-> method, url |-> url, params |-> params, data |-> data]

\* A login with one of its three assignments dropped.
StoreLoginNoCountry(s, body) ==
    IF "sessionId" \notin DOMAIN body
    THEN [sess |-> s, result |-> Raised("KeyError")]
    ELSE IF "userId" \notin DOMAIN body
    THEN [sess |-> [s EXCEPT !.session_id = body["sessionId"]],
          result |-> Raised("KeyError")]
    ELSE [sess |-> [s EXCEPT !.session_id = body["sessionId"],
                             !.user = User(body["userId"])],
          result |-> Returned(TRUE)]

\* The three assignments of login, in order; a missing key raises KeyError
\* at its own line, after the assignments before it have taken effect.
StoreLogin(s, body) ==
    IF "sessionId" \notin DOMAIN body
    THEN [sess |-> s, result |-> Raised("KeyError")]
    ELSE LET s1 == [s EXCEPT !.session_id = body["sessionId"]] IN
    IF "countryCode" \notin DOMAIN body
    THEN [sess |-> s1, result |-> Raised("KeyError")]
    ELSE LET s2 == [s1 EXCEPT !.country_code = body["countryCode"]] IN
    IF "userId" \notin DOMAIN body
    THEN [sess |-> s2, result |-> Raised("KeyError")]
    ELSE [sess |-> [s2 EXCEPT !.user = User(body["userId"])],
          result |-> Returned(TRUE)]

login(s, a, username, password, r) ==
    LET req == Request("POST", urljoin(a.location, "login/username"),
                       [token |-> a.token],
                       [username |-> username, password |-> password])
    IN  IF r.failed THEN Outcome(s, <<req>>, Raised("ConnectionError"))
        ELSE IF IsHTTPError(r) THEN Outcome(s, <<req>>, Raised("HTTPError"))
        ELSE IF ~IsJson(r) THEN Outcome(s, <<req>>, Raised("ValueError"))
        ELSE LET st == StoreLogin(s, r.json)
             IN  Outcome(st.sess, <<req>>, st.result)

\* A check_login that tests the user only, not the session id.
check_login_user_only(s, a, r) ==
    IF s.user = NoneObj \/ ~Truthy(s.user.id)
    THEN Outcome(s, <<>>, Returned(FALSE))
    ELSE LET req == Request("GET",
                        urljoin(a.location, "users/" \o Str(s.user.id) \o "/subscription"),
                        [sessionId |-> s.session_id], NoneObj)
         IN  IF r.failed THEN Outcome(s, <<req>>, Raised("ConnectionError"))
             ELSE Outcome(s, <<req>>, Returned(Ok(r)))

check_login(s, a, r) ==
    IF s.user = NoneObj \/ ~Truthy(s.user.id) \/ ~Truthy(s.session_id)
    THEN Outcome(s, <<>>, Returned(FALSE))
    ELSE LET req == Request("GET",
                        urljoin(a.location, "users/" \o Str(s.user.id) \o "/subscription"),
                        [sessionId |-> s.session_id], NoneObj)
         IN  IF r.failed THEN Outcome(s, <<req>>, Raised("ConnectionError"))
             ELSE Outcome(s, <<req>>, Returned(Ok(r)))

-----------------------------------------------------------------------------
(* Domain models (models.py) and the response normalizers *)

Artist(id, name) == [cls |-> "Artist", id |-> id, name |-> name]

Album(id, name, num_tracks, duration, artist) ==
    [cls |-> "Album", id |-> id, name |-> name, num_tracks |-> num_tracks,
     duration |-> duration, artist |-> artist]

Track(id, name, duration, track_num, disc_num, popularity, artist, album, available) ==
    [cls |-> "Track", id |-> id, name |-> name, duration |-> duration,
     track_num |-> track_num, disc_num |-> disc_num, popularity |-> popularity,
     artist |-> artist, album |-> album, available |-> available]

\* Playlist(**kwargs): the fields given; the others stay unset.
Playlist(kwargs) ==
    [k \in {"cls", "id", "name", "description", "num_tracks", "duration", "is_public"} |->
        IF k = "cls" THEN "Playlist"
        ELSE IF k \in DOMAIN kwargs THEN kwargs[k] ELSE NoneObj]

SearchFields == {"artists", "albums", "playlists", "tracks"}

\* SearchResult(**kwargs): the field given; the others stay unset.
SearchResult(kwargs) ==
    [k \in SearchFields \cup {"cls"} |->
        IF k = "cls" THEN "SearchResult"
        ELSE IF k \in DOMAIN kwargs THEN kwargs[k] ELSE NoneObj]

\* dict.get(key): the value, or None when the key is missing.
Get(d, key) == IF key \in DOMAIN d THEN d[key] ELSE NoneObj

\* d[k] for every k of keys would not raise KeyError.
HasKeys(d, keys) == keys \subseteq DOMAIN d

\* int(v) and bool(v) of a JSON number and a JSON boolean.
PyInt(v) == v

PyBool(v) == v = TRUE

_parse_artist(json_obj) ==
    IF ~HasKeys(json_obj, {"id", "name"}) THEN Raised("KeyError")
    ELSE Returned(Artist(json_obj["id"], json_obj["name"]))

\* _parse_album(json_obj, artist): artist is NoneObj when not supplied.
_parse_album(json_obj, artist) ==
    LET a == IF artist # NoneObj THEN Returned(artist)
             ELSE IF ~HasKeys(json_obj, {"artist"}) THEN Raised("KeyError")
             ELSE _parse_artist(json_obj["artist"])
    IN  IF a.raised THEN a
        ELSE IF ~HasKeys(json_obj, {"id", "title"}) THEN Raised("KeyError")
        ELSE Returned(Album(json_obj["id"], json_obj["title"],
                            Get(json_obj, "numberOfTracks"),
                            Get(json_obj, "duration"), a.value))

_parse_featured_playlist(json_obj) ==
    IF ~HasKeys(json_obj, {"artifactId", "header", "text"}) THEN Raised("KeyError")
    ELSE Returned(Playlist([id |-> json_obj["artifactId"],
                            name |-> json_obj["header"],
                            description |-> json_obj["text"]]))

_parse_playlist(json_obj) ==
    IF ~HasKeys(json_obj, {"uuid", "title", "description", "numberOfTracks",
                           "duration", "publicPlaylist"})
    THEN Raised("KeyError")
    ELSE Returned(Playlist([id |-> json_obj["uuid"],
                            name |-> json_obj["title"],
                            description |-> json_obj["description"],
                            num_tracks |-> PyInt(json_obj["numberOfTracks"]),
                            duration |-> PyInt(json_obj["duration"]),
                            is_public |-> json_obj["publicPlaylist"]]))

_parse_track(json_obj) ==
    LET artist == IF ~HasKeys(json_obj, {"artist"}) THEN Raised("KeyError")
                  ELSE _parse_artist(json_obj["artist"])
    IN  IF artist.raised THEN artist
        ELSE LET album == IF ~HasKeys(json_obj, {"album"}) THEN Raised("KeyError")
                          ELSE _parse_album(json_obj["album"], artist.value)
        IN  IF album.raised THEN album
            ELSE IF ~HasKeys(json_obj, {"id", "title", "duration", "trackNumber",
                                        "volumeNumber", "popularity", "streamReady"})
            THEN Raised("KeyError")
            ELSE Returned(Track(json_obj["id"], json_obj["title"], json_obj["duration"],
                                json_obj["trackNumber"], json_obj["volumeNumber"],
                                json_obj["popularity"], artist.value, album.value,
                                PyBool(json_obj["streamReady"])))

-----------------------------------------------------------------------------
(* Session.request and Session._map_request *)

\* dict.update: the keys of other replace or extend those of d.
Update(d, other) ==
    [k \in DOMAIN d \cup DOMAIN other |-> IF k \in DOMAIN other THEN other[k] ELSE d[k]]

\* The query parameters request sends.  A number in a caller's params is
\* written as the string the query string carries ("100", "50").
RequestParams(s, params) ==
    LET request_params == [sessionId |-> s.session_id,
                           countryCode |-> s.country_code,
                           limit |-> "9999"]
    IN  IF params # NoneObj /\ DOMAIN params # {}
        THEN Update(request_params, params)
        ELSE request_params

\* A request that does not call raise_for_status.
request_no_raise(s, a, method, path, params, data, r) ==
    LET req == Request(method, urljoin(a.location, path), RequestParams(s, params), data)
    IN  IF r.failed THEN Outcome(s, <<req>>, Raised("ConnectionError"))
        ELSE IF HasContent(r) /\ ~IsJson(r) THEN Outcome(s, <<req>>, Raised("ValueError"))
        ELSE Outcome(s, <<req>>, Returned(r))

\* request returns the response; the debug line decodes a non-empty body
\* whatever the log level, so a body that is not JSON raises ValueError.
request(s, a, method, path, params, data, r) ==
    LET req == Request(method, urljoin(a.location, path), RequestParams(s, params), data)
    IN  IF r.failed THEN Outcome(s, <<req>>, Raised("ConnectionError"))
        ELSE IF IsHTTPError(r) THEN Outcome(s, <<req>>, Raised("HTTPError"))
        ELSE IF HasContent(r) /\ ~IsJson(r) THEN Outcome(s, <<req>>, Raised("ValueError"))
        ELSE Outcome(s, <<req>>, Returned(r))

\* The user kind falling through to no normalizer.
SelectParseNoUser(ret) ==
    IF StartsWith(ret, "artist") THEN "_parse_artist"
    ELSE IF StartsWith(ret, "album") THEN "_parse_album"
    ELSE IF StartsWith(ret, "track") THEN "_parse_track"
    ELSE IF StartsWith(ret, "playlist") THEN "_parse_playlist"
    ELSE IF StartsWith(ret, "featured_playlist") THEN "_parse_featured_playlist"
    ELSE None

\* The normalizer _map_request selects for a result kind, by name:
\* "NotImplementedError" for a user kind, None when no prefix matches.
SelectParse(ret) ==
    IF StartsWith(ret, "artist") THEN "_parse_artist"
    ELSE IF StartsWith(ret, "album") THEN "_parse_album"
    ELSE IF StartsWith(ret, "track") THEN "_parse_track"
    ELSE IF StartsWith(ret, "user") THEN "NotImplementedError"
    ELSE IF StartsWith(ret, "playlist") THEN "_parse_playlist"
    ELSE IF StartsWith(ret, "featured_playlist") THEN "_parse_featured_playlist"
    ELSE None

\* parse(json_obj); calling None raises TypeError.
Call(parse, json_obj) ==
    CASE parse = "_parse_artist" -> _parse_artist(json_obj)
      [] parse = "_parse_album" -> _parse_album(json_obj, NoneObj)
      [] parse = "_parse_track" -> _parse_track(json_obj)
      [] parse = "_parse_playlist" -> _parse_playlist(json_obj)
      [] parse = "_parse_featured_playlist" -> _parse_featured_playlist(json_obj)
      [] OTHER -> Raised("TypeError")

\* The first exception among the outcomes rs, else the list of their values.
Collect(rs) ==
    IF \E i \in 1..Len(rs) : rs[i].raised
    THEN rs[CHOOSE i \in 1..Len(rs) :
                rs[i].raised /\ \A j \in 1..(i - 1) : ~rs[j].raised]
    ELSE Returned(PyList([i \in 1..Len(rs) |-> rs[i].value]))

\* list(map(parse, seq)).  map(None, seq) is the list itself on Python 2;
\* on Python 3 it calls None for the first element.
MapParse(parse, seq) ==
    IF parse = None
    THEN IF py3 /\ seq # <<>> THEN Raised("TypeError") ELSE Returned(PyList(seq))
    ELSE Collect([i \in 1..Len(seq) |-> Call(parse, seq[i])])

\* The predicate of get_featured: lambda x: x['type'] == 'PLAYLIST'.
TypeIsPlaylist == [cls |-> "function", key |-> "type", equals |-> "PLAYLIST"]

\* _filter(x)
Test(_filter, x) ==
    IF _filter.key \notin DOMAIN x THEN Raised("KeyError")
    ELSE Returned(x[_filter.key] = _filter.equals)

RECURSIVE Keep(_, _)
\* The elements of seq whose test returned true, in order.
Keep(tests, seq) ==
    IF seq = <<>> THEN <<>>
    ELSE (IF Head(tests).value THEN <<Head(seq)>> ELSE <<>>)
            \o Keep(Tail(tests), Tail(seq))

\* The builtin filter(_filter, items): a list on Python 2, computed at
\* once; a lazy filter object on Python 3.
filter(_filter, items) ==
    IF py3 THEN Returned([cls |-> "filter", function |-> _filter, iterable |-> items])
    ELSE LET tests == [i \in 1..Len(items.elems) |-> Test(_filter, items.elems[i])]
         IN  IF \E i \in 1..Len(tests) : tests[i].raised
             THEN Raised("KeyError")
             ELSE Returned(PyList(Keep(tests, items.elems)))

\* Lines 185-188 of _map_request: the list of models of a list of items,
\* each unwrapped from its item field when the first one is wrapped.
MapSequence(parse, items) ==
    IF items.cls # "list" THEN Raised("TypeError")
    ELSE IF Len(items.elems) > 0 /\ "item" \in DOMAIN items.elems[1]
    THEN IF \E i \in 1..Len(items.elems) : "item" \notin DOMAIN items.elems[i]
         THEN Raised("KeyError")
         ELSE MapParse(parse, [i \in 1..Len(items.elems) |-> items.elems[i]["item"]])
    ELSE MapParse(parse, items.elems)

\* A body without items mapped as a list of one.
MapItemsListOfOne(parse, json_obj, _filter) ==
    LET got == Get(json_obj, "items")
        filtered == IF _filter # NoneObj /\ got # NoneObj
                    THEN filter(_filter, got)
                    ELSE Returned(got)
    IN  IF filtered.raised THEN filtered
        ELSE IF filtered.value = NoneObj THEN MapSequence(parse, PyList(<<json_obj>>))
        ELSE MapSequence(parse, filtered.value)

\* Lines 179-184 of _map_request: from the decoded body to the value.  len
\* of a filter object raises TypeError.
MapItems(parse, json_obj, _filter) ==
    LET got == Get(json_obj, "items")
        filtered == IF _filter # NoneObj /\ got # NoneObj
                    THEN filter(_filter, got)
                    ELSE Returned(got)
    IN  IF filtered.raised THEN filtered
        ELSE IF filtered.value = NoneObj THEN Call(parse, json_obj)
        ELSE MapSequence(parse, filtered.value)

_map_request(s, a, url, params, ret, _filter, r) ==
    LET rq == request(s, a, "GET", url, params, NoneObj, r)
    IN  IF rq.result.raised THEN rq
        ELSE IF ~IsJson(r) THEN Outcome(s, rq.sent, Raised("ValueError"))
        ELSE IF SelectParse(ret) = "NotImplementedError"
        THEN Outcome(s, rq.sent, Raised("NotImplementedError"))
        ELSE Outcome(s, rq.sent, MapItems(SelectParse(ret), r.json, _filter))

-----------------------------------------------------------------------------
(* The catalog accessors, get_media_url and search *)

get_user(s, a, user_id, r) ==
    _map_request(s, a, "users/" \o Str(user_id), NoneObj, "user", NoneObj, r)

get_user_playlists(s, a, user_id, r) ==
    _map_request(s, a, "users/" \o Str(user_id) \o "/playlists", NoneObj, "playlists", NoneObj, r)

get_playlist(s, a, playlist_id, r) ==
    _map_request(s, a, "playlists/" \o playlist_id, NoneObj, "playlist", NoneObj, r)

get_playlist_tracks(s, a, playlist_id, r) ==
    _map_request(s, a, "playlists/" \o playlist_id \o "/tracks", NoneObj, "tracks", NoneObj, r)

get_album(s, a, album_id, r) ==
    _map_request(s, a, "albums/" \o album_id, NoneObj, "album", NoneObj, r)

get_album_tracks(s, a, album_id, r) ==
    _map_request(s, a, "albums/" \o album_id \o "/tracks", NoneObj, "tracks", NoneObj, r)

get_artist(s, a, artist_id, r) ==
    _map_request(s, a, "artists/" \o artist_id, NoneObj, "artist", NoneObj, r)

get_artist_albums(s, a, artist_id, r) ==
    _map_request(s, a, "artists/" \o artist_id \o "/albums", NoneObj, "albums", NoneObj, r)

get_artist_albums_ep_singles(s, a, artist_id, r) ==
    _map_request(s, a, "artists/" \o artist_id \o "/albums",
                 [filter |-> "EPSANDSINGLES"], "albums", NoneObj, r)

get_artist_albums_other(s, a, artist_id, r) ==
    _map_request(s, a, "artists/" \o artist_id \o "/albums",
                 [filter |-> "COMPILATIONS"], "albums", NoneObj, r)

get_artist_top_tracks(s, a, artist_id, r) ==
    _map_request(s, a, "artists/" \o artist_id \o "/toptracks", NoneObj, "tracks", NoneObj, r)

get_artist_bio(s, a, artist_id, r) ==
    LET rq == request(s, a, "GET", "artists/" \o artist_id \o "/bio", NoneObj, NoneObj, r)
    IN  IF rq.result.raised THEN rq
        ELSE IF ~IsJson(r) THEN Outcome(s, rq.sent, Raised("ValueError"))
        ELSE IF ~HasKeys(r.json, {"text"}) THEN Outcome(s, rq.sent, Raised("KeyError"))
        ELSE Outcome(s, rq.sent, Returned(r.json["text"]))

get_artist_similar(s, a, artist_id, r) ==
    _map_request(s, a, "artists/" \o artist_id \o "/similar", NoneObj, "artists", NoneObj, r)

get_artist_radio(s, a, artist_id, r) ==
    _map_request(s, a, "artists/" \o artist_id \o "/radio", [limit |-> "100"], "tracks", NoneObj, r)

get_featured(s, a, r) ==
    _map_request(s, a, "promotions", NoneObj, "featured_playlist", TypeIsPlaylist, r)

get_recommended_new_top(s, a, what, _type, r) ==
    _map_request(s, a, "featured/" \o _type \o "/" \o what, NoneObj, what, NoneObj, r)

get_moods(s, a, r) ==
    LET rq == request(s, a, "GET", "moods", NoneObj, NoneObj, r)
    IN  IF rq.result.raised THEN rq
        ELSE IF ~IsJson(r) THEN Outcome(s, rq.sent, Raised("ValueError"))
        ELSE Outcome(s, rq.sent, Returned(r.json))

get_mood_playlists(s, a, mood, r) ==
    _map_request(s, a, "moods/" \o mood \o "/playlists", NoneObj, "playlists", NoneObj, r)

get_media_url(s, a, q, track_id, r) ==
    LET rq == request(s, a, "GET", "tracks/" \o track_id \o "/streamUrl",
                      [soundQuality |-> q], NoneObj, r)
    IN  IF rq.result.raised THEN rq
        ELSE IF ~IsJson(r) THEN Outcome(s, rq.sent, Raised("ValueError"))
        ELSE IF ~HasKeys(r.json, {"url"}) THEN Outcome(s, rq.sent, Raised("KeyError"))
        ELSE Outcome(s, rq.sent, Returned(r.json["url"]))

\* The field itself as the result kind.
RetTypeSingular(field) == field

\* ret_type = field + 's'
RetType(field) == field \o "s"

\* A search that validates the field after the request.
search_checks_late(s, a, field, value, r) ==
    LET mapped == _map_request(s, a, "search/" \o field \o "s",
                               [query |-> value, limit |-> "50"], field \o "s", NoneObj, r)
    IN  IF mapped.result.raised THEN mapped
        ELSE IF field \notin {"artist", "album", "playlist", "track"}
        THEN Outcome(s, mapped.sent, Raised("ValueError"))
        ELSE Outcome(s, mapped.sent,
                     Returned(SearchResult((field \o "s") :> mapped.result.value)))

search(s, a, field, value, r) ==
    LET params == [query |-> value, limit |-> "50"]
    IN  IF field \notin {"artist", "album", "playlist", "track"}
        THEN Outcome(s, <<>>, Raised("ValueError"))
        ELSE LET ret_type == RetType(field)
                 url == "search/" \o field \o "s"
                 mapped == _map_request(s, a, url, params, ret_type, NoneObj, r)
             IN  IF mapped.result.raised THEN mapped
                 ELSE Outcome(s, mapped.sent,
                              Returned(SearchResult(ret_type :> mapped.result.value)))

-----------------------------------------------------------------------------
(* Favorites and User *)

\* The body of add_artist, add_album, add_track: kind is "artist", "album"
\* or "track".
favorites_add(s, a, fav, kind, id, r) ==
    LET rq == request(s, a, "POST", fav.base_url \o "/" \o kind \o "s", NoneObj,
                      (kind \o "Id") :> id, r)
    IN  IF rq.result.raised THEN rq
        ELSE Outcome(s, rq.sent, Returned(Ok(r)))

\* The body of remove_artist, remove_album, remove_track.
favorites_remove(s, a, fav, kind, id, r) ==
    LET rq == request(s, a, "DELETE", fav.base_url \o "/" \o kind \o "s/" \o id,
                      NoneObj, NoneObj, r)
    IN  IF rq.result.raised THEN rq
        ELSE Outcome(s, rq.sent, Returned(Ok(r)))

add_artist(s, a, fav, artist_id, r) == favorites_add(s, a, fav, "artist", artist_id, r)

add_album(s, a, fav, album_id, r) == favorites_add(s, a, fav, "album", album_id, r)

add_track(s, a, fav, track_id, r) == favorites_add(s, a, fav, "track", track_id, r)

remove_artist(s, a, fav, artist_id, r) == favorites_remove(s, a, fav, "artist", artist_id, r)

remove_album(s, a, fav, album_id, r) == favorites_remove(s, a, fav, "album", album_id, r)

remove_track(s, a, fav, track_id, r) == favorites_remove(s, a, fav, "track", track_id, r)

\* artists, albums, playlists: kind is the plural.
favorites_list(s, a, fav, kind, r) ==
    _map_request(s, a, fav.base_url \o "/" \o kind, NoneObj, kind, NoneObj, r)

\* [_parse_track(item['item']) for item in r.json()['items']]
favorites_tracks(s, a, fav, r) ==
    LET rq == request(s, a, "GET", fav.base_url \o "/tracks", NoneObj, NoneObj, r)
    IN  IF rq.result.raised THEN rq
        ELSE IF ~IsJson(r) THEN Outcome(s, rq.sent, Raised("ValueError"))
        ELSE IF ~HasKeys(r.json, {"items"}) THEN Outcome(s, rq.sent, Raised("KeyError"))
        ELSE IF r.json["items"] = NoneObj THEN Outcome(s, rq.sent, Raised("TypeError"))
        ELSE LET items == r.json["items"].elems
             IN  Outcome(s, rq.sent,
                    Collect([i \in 1..Len(items) |->
                        IF "item" \notin DOMAIN items[i] THEN Raised("KeyError")
                        ELSE _parse_track(items[i]["item"])]))

\* User.playlists
user_playlists(s, a, u, r) == get_user_playlists(s, a, u.id, r)

-----------------------------------------------------------------------------
(* Inputs: what the caller passes and what the transport answers *)

\* The longest items array of a response.
MaxItems == 2

Statuses == {200, 304, 404, 500}

ConfigKwargs ==
    {f \in UNION {[K -> {"abc", "", "42", "SE"}] : K \in SUBSET {"session_id", "user_id", "country_code"}} :
        /\ "session_id" \in DOMAIN f => f["session_id"] \in {"abc", ""}
        /\ "user_id" \in DOMAIN f => f["user_id"] \in {"42", ""}
        /\ "country_code" \in DOMAIN f => f["country_code"] = "SE"}

CatalogConfigKwargs == {<<>>, [session_id |-> "abc", user_id |-> "42"]}

Usernames == {"bob"}

Passwords == {"pw"}

LoginBodies ==
    {f \in UNION {[K -> {"S1", "", "US", "7"}] : K \in SUBSET {"sessionId", "countryCode", "userId"}} :
        /\ "sessionId" \in DOMAIN f => f["sessionId"] \in {"S1", ""}
        /\ "countryCode" \in DOMAIN f => f["countryCode"] = "US"
        /\ "userId" \in DOMAIN f => f["userId"] \in {"7", ""}}

StatusResponses ==
    {TransportFailure} \cup {NoBody(st) : st \in Statuses} \cup {TextBody(st) : st \in Statuses}

\* Every kind of answer: the JSON bodies of docs under status 200, and
\* under every status the empty JSON object.
Responses(docs) ==
    StatusResponses \cup {JsonBody(200, d) : d \in docs}
        \cup {JsonBody(st, <<>>) : st \in Statuses}

LoginResponses ==
    StatusResponses \cup {JsonBody(st, b) : st \in Statuses, b \in LoginBodies}

BriefLoginResponses ==
    {TransportFailure, NoBody(404),
     JsonBody(200, [sessionId |-> "S1", countryCode |-> "US", userId |-> "7"]),
     JsonBody(304, [sessionId |-> "S1", countryCode |-> "US", userId |-> "7"]),
     JsonBody(200, [sessionId |-> "S2"])}

Ids == {"1"}

A1 == [id |-> "a1", name |-> "Ann"]

A2 == [id |-> "a2", name |-> "Bo"]

ANoName == [id |-> "a3"]

Al1 == [id |-> "b1", title |-> "First", artist |-> A1, numberOfTracks |-> 10, duration |-> 2400]

Al2 == [id |-> "b2", title |-> "Second", artist |-> A2]

T1 == [id |-> "t1", title |-> "Song", duration |-> 200, trackNumber |-> 1, volumeNumber |-> 1,
       popularity |-> 50, artist |-> A1, album |-> [id |-> "b1", title |-> "First"],
       streamReady |-> TRUE]

P1 == [uuid |-> "p1", title |-> "Mix", description |-> "A mix", numberOfTracks |-> 12,
       duration |-> 3000, publicPlaylist |-> TRUE]

F1 == [type |-> "PLAYLIST", artifactId |-> "f1", header |-> "Hot", text |-> "Hot now"]

F2 == [type |-> "ALBUM", artifactId |-> "f2", header |-> "New", text |-> "New album"]

F3 == [type |-> "PLAYLIST", artifactId |-> "f3", header |-> "Chill", text |-> "Chill out"]

FNoType == [artifactId |-> "f4", header |-> "Odd", text |-> "No type"]

\* An item wrapped one level in a field named item.
Wrapped(x) == [item |-> x, created |-> "2014-01-01"]

WrappedPromo(x) == [type |-> x["type"], item |-> x]

Seqs(S, n) == UNION {[1..k -> S] : k \in 0..n}

\* The bodies with an items array over raw, one with items null, and
\* the single entities themselves.
Docs(singles, raw) ==
    singles \cup {[items |-> NoneObj] @@ x : x \in singles}
        \cup {[items |-> PyList(q)] : q \in Seqs(raw, MaxItems)}

ArtistDocs == Docs({A1, ANoName}, {A1, A2, ANoName, Wrapped(A1)})

AlbumDocs == Docs({Al1}, {Al1, Al2})

TrackDocs == Docs({T1}, {T1, Wrapped(T1)})

PlaylistDocs == Docs({P1}, {P1, Wrapped(P1)})

PromoDocs == Docs({F1}, {F1, F2, F3, FNoType, WrappedPromo(F1)})

UserDocs == {[id |-> "42", username |-> "bob"]}

OtherDocs == {[text |-> "A biography"], [url |-> "http://stream/t1"], <<>>}

\* The bodies answered to a direct call of _map_request.
MapDocs == ArtistDocs \cup PromoDocs \cup UserDocs \cup {<<>>}

ArtistResponses == Responses(ArtistDocs)

AlbumResponses == Responses(AlbumDocs)

TrackResponses == Responses(TrackDocs)

PlaylistResponses == Responses(PlaylistDocs)

PromoResponses == Responses(PromoDocs)

UserResponses == Responses(UserDocs)

OtherResponses == Responses(OtherDocs)

MapResponses == Responses(MapDocs)

\* The answers given to an accessor of result kind ret.
ResponsesFor(ret) ==
    IF StartsWith(ret, "artist") THEN ArtistResponses
    ELSE IF StartsWith(ret, "album") THEN AlbumResponses
    ELSE IF StartsWith(ret, "track") THEN TrackResponses
    ELSE IF StartsWith(ret, "playlist") THEN PlaylistResponses
    ELSE UserResponses \cup {JsonBody(200, [items |-> PyList(<<>>)]),
                             JsonBody(200, [items |-> PyList(<<A1>>)])}

Rets == {"artist", "artists", "featured_playlist", "users", "videos"}

Filters == {NoneObj, TypeIsPlaylist}

Fields == {"artist", "album", "playlist", "track", "invalid", "artists", ""}

Methods == {"GET", "POST", "DELETE"}

CallerParams ==
    {NoneObj, <<>>, [limit |-> "10"], [sessionId |-> "other"],
     [countryCode |-> "GB", query |-> "foo"]}

-----------------------------------------------------------------------------
(* The state machine *)

NoCall == [name |-> "none"]

\* A Session constructed from a Config, before any call.
Constructed(kwargs) ==
    /\ \E kw \in kwargs :
        LET s == SessionInit(Config(kw)) IN
        /\ session_id = s.session_id
        /\ country_code = s.country_code
        /\ user = s.user
        /\ api = s.api
        /\ quality = s.quality
    /\ py3 \in BOOLEAN
    /\ pc = "idle"
    /\ op = NoCall
    /\ sent = <<>>
    /\ resp = NoneObj
    /\ result = NoneObj
    /\ pre = NoneObj
    /\ lastLogin = NoneObj

Init == Constructed(ConfigKwargs)

InitCatalog == Constructed(CatalogConfigKwargs)

\* A call ends: the session it leaves, and the record of the call.
Ends(call, out, r) ==
    /\ session_id' = out.sess.session_id
    /\ country_code' = out.sess.country_code
    /\ user' = out.sess.user
    /\ op' = call
    /\ sent' = out.sent
    /\ resp' = IF out.sent = <<>> THEN NoneObj ELSE r
    /\ result' = out.result
    /\ pre' = Sess
    /\ pc' = "done"
    /\ UNCHANGED <<api, quality, py3>>

\* A call other than login.
Calls(call, out, r) ==
    /\ pc = "idle"
    /\ Ends(call, out, r)
    /\ UNCHANGED lastLogin

LoginWith(responses) ==
    /\ pc = "idle"
    /\ \E u \in Usernames, p \in Passwords, r \in responses :
        LET out == login(Sess, api, u, p, r) IN
        /\ Ends([name |-> "login", username |-> u, password |-> p], out, r)
        /\ lastLogin' = IF out.result.raised THEN lastLogin ELSE r.json

Login == LoginWith(LoginResponses)

LoginBrief == LoginWith(BriefLoginResponses)

CheckLogin ==
    \E r \in StatusResponses :
        Calls([name |-> "check_login"], check_login(Sess, api, r), r)

\* The caller takes the outcome of the call.
Return ==
    /\ pc = "done"
    /\ pc' = "idle"
    /\ op' = NoCall
    /\ sent' = <<>>
    /\ resp' = NoneObj
    /\ result' = NoneObj
    /\ pre' = NoneObj
    /\ UNCHANGED <<session_id, country_code, user, api, quality, py3, lastLogin>>

\* session.request(method, path, params) called directly.
RequestCall ==
    \E method \in Methods, params \in CallerParams, r \in OtherResponses :
        Calls([name |-> "request", method |-> method, path |-> "moods", params |-> params],
              request(Sess, api, method, "moods", params, NoneObj, r), r)

\* session._map_request(url, params, ret, _filter) called directly.
MapRequest ==
    \E ret \in Rets, _filter \in Filters, r \in MapResponses :
        Calls([name |-> "_map_request", url |-> "some/path", params |-> NoneObj,
               ret |-> ret, filter |-> _filter],
              _map_request(Sess, api, "some/path", NoneObj, ret, _filter, r), r)

GetUser ==
    \E user_id \in Ids, r \in UserResponses :
        Calls([name |-> "get_user", user_id |-> user_id],
              get_user(Sess, api, user_id, r), r)

GetUserPlaylists ==
    \E user_id \in Ids, r \in PlaylistResponses :
        Calls([name |-> "get_user_playlists", user_id |-> user_id],
              get_user_playlists(Sess, api, user_id, r), r)

GetPlaylist ==
    \E playlist_id \in Ids, r \in PlaylistResponses :
        Calls([name |-> "get_playlist", playlist_id |-> playlist_id],
              get_playlist(Sess, api, playlist_id, r), r)

GetPlaylistTracks ==
    \E playlist_id \in Ids, r \in TrackResponses :
        Calls([name |-> "get_playlist_tracks", playlist_id |-> playlist_id],
              get_playlist_tracks(Sess, api, playlist_id, r), r)

GetAlbum ==
    \E album_id \in Ids, r \in AlbumResponses :
        Calls([name |-> "get_album", album_id |-> album_id],
              get_album(Sess, api, album_id, r), r)

GetAlbumTracks ==
    \E album_id \in Ids, r \in TrackResponses :
        Calls([name |-> "get_album_tracks", album_id |-> album_id],
              get_album_tracks(Sess, api, album_id, r), r)

GetArtist ==
    \E artist_id \in Ids, r \in ArtistResponses :
        Calls([name |-> "get_artist", artist_id |-> artist_id],
              get_artist(Sess, api, artist_id, r), r)

GetArtistAlbums ==
    \E artist_id \in Ids, r \in AlbumResponses :
        Calls([name |-> "get_artist_albums", artist_id |-> artist_id],
              get_artist_albums(Sess, api, artist_id, r), r)

GetArtistAlbumsEpSingles ==
    \E artist_id \in Ids, r \in AlbumResponses :
        Calls([name |-> "get_artist_albums_ep_singles", artist_id |-> artist_id],
              get_artist_albums_ep_singles(Sess, api, artist_id, r), r)

GetArtistAlbumsOther ==
    \E artist_id \in Ids, r \in AlbumResponses :
        Calls([name |-> "get_artist_albums_other", artist_id |-> artist_id],
              get_artist_albums_other(Sess, api, artist_id, r), r)

GetArtistTopTracks ==
    \E artist_id \in Ids, r \in TrackResponses :
        Calls([name |-> "get_artist_top_tracks", artist_id |-> artist_id],
              get_artist_top_tracks(Sess, api, artist_id, r), r)

GetArtistBio ==
    \E artist_id \in Ids, r \in OtherResponses :
        Calls([name |-> "get_artist_bio", artist_id |-> artist_id],
              get_artist_bio(Sess, api, artist_id, r), r)

GetArtistSimilar ==
    \E artist_id \in Ids, r \in ArtistResponses :
        Calls([name |-> "get_artist_similar", artist_id |-> artist_id],
              get_artist_similar(Sess, api, artist_id, r), r)

GetArtistRadio ==
    \E artist_id \in Ids, r \in TrackResponses :
        Calls([name |-> "get_artist_radio", artist_id |-> artist_id],
              get_artist_radio(Sess, api, artist_id, r), r)

GetFeatured ==
    \E r \in PromoResponses :
        Calls([name |-> "get_featured"], get_featured(Sess, api, r), r)

GetRecommendedNewTop ==
    \E what \in {"playlists", "albums", "users", "videos"}, _type \in {"new"} :
        \E r \in ResponsesFor(what) :
            Calls([name |-> "get_recommended_new_top", what |-> what, type |-> _type],
                  get_recommended_new_top(Sess, api, what, _type, r), r)

GetMoods ==
    \E r \in OtherResponses :
        Calls([name |-> "get_moods"], get_moods(Sess, api, r), r)

GetMoodPlaylists ==
    \E mood \in {"party"}, r \in PlaylistResponses :
        Calls([name |-> "get_mood_playlists", mood |-> mood],
              get_mood_playlists(Sess, api, mood, r), r)

GetMediaUrl ==
    \E track_id \in Ids, r \in OtherResponses :
        Calls([name |-> "get_media_url", track_id |-> track_id],
              get_media_url(Sess, api, quality, track_id, r), r)

Search ==
    \E field \in Fields, value \in {"foo", ""} :
        \E r \in ResponsesFor(field) :
            Calls([name |-> "search", field |-> field, value |-> value],
                  search(Sess, api, field, value, r), r)

AddArtist ==
    /\ user # NoneObj
    /\ \E artist_id \in Ids, r \in StatusResponses \cup {JsonBody(200, <<>>)} :
        Calls([name |-> "favorites.add_artist", artist_id |-> artist_id],
              add_artist(Sess, api, user.favorites, artist_id, r), r)

RemoveArtist ==
    /\ user # NoneObj
    /\ \E artist_id \in Ids, r \in StatusResponses \cup {JsonBody(200, <<>>)} :
        Calls([name |-> "favorites.remove_artist", artist_id |-> artist_id],
              remove_artist(Sess, api, user.favorites, artist_id, r), r)

AddAlbum ==
    /\ user # NoneObj
    /\ \E album_id \in Ids, r \in StatusResponses \cup {JsonBody(200, <<>>)} :
        Calls([name |-> "favorites.add_album", album_id |-> album_id],
              add_album(Sess, api, user.favorites, album_id, r), r)

RemoveAlbum ==
    /\ user # NoneObj
    /\ \E album_id \in Ids, r \in StatusResponses \cup {JsonBody(200, <<>>)} :
        Calls([name |-> "favorites.remove_album", album_id |-> album_id],
              remove_album(Sess, api, user.favorites, album_id, r), r)

AddTrack ==
    /\ user # NoneObj
    /\ \E track_id \in Ids, r \in StatusResponses \cup {JsonBody(200, <<>>)} :
        Calls([name |-> "favorites.add_track", track_id |-> track_id],
              add_track(Sess, api, user.favorites, track_id, r), r)

RemoveTrack ==
    /\ user # NoneObj
    /\ \E track_id \in Ids, r \in StatusResponses \cup {JsonBody(200, <<>>)} :
        Calls([name |-> "favorites.remove_track", track_id |-> track_id],
              remove_track(Sess, api, user.favorites, track_id, r), r)

FavoriteArtists ==
    /\ user # NoneObj
    /\ \E r \in ArtistResponses :
        Calls([name |-> "favorites.artists"],
              favorites_list(Sess, api, user.favorites, "artists", r), r)

FavoriteAlbums ==
    /\ user # NoneObj
    /\ \E r \in AlbumResponses :
        Calls([name |-> "favorites.albums"],
              favorites_list(Sess, api, user.favorites, "albums", r), r)

FavoritePlaylists ==
    /\ user # NoneObj
    /\ \E r \in PlaylistResponses :
        Calls([name |-> "favorites.playlists"],
              favorites_list(Sess, api, user.favorites, "playlists", r), r)

FavoriteTracks ==
    /\ user # NoneObj
    /\ \E r \in TrackResponses :
        Calls([name |-> "favorites.tracks"],
              favorites_tracks(Sess, api, user.favorites, r), r)

UserPlaylists ==
    /\ user # NoneObj
    /\ \E r \in PlaylistResponses :
        Calls([name |-> "user.playlists"], user_playlists(Sess, api, user, r), r)

Next ==
    \/ Login
    \/ CheckLogin
    \/ Return

Spec == Init /\ [][Next]_vars

NextCatalog ==
    \/ LoginBrief
    \/ CheckLogin
    \/ RequestCall
    \/ MapRequest
    \/ GetUser
    \/ GetUserPlaylists
    \/ GetPlaylist
    \/ GetPlaylistTracks
    \/ GetAlbum
    \/ GetAlbumTracks
    \/ GetArtist
    \/ GetArtistAlbums
    \/ GetArtistAlbumsEpSingles
    \/ GetArtistAlbumsOther
    \/ GetArtistTopTracks
    \/ GetArtistBio
    \/ GetArtistSimilar
    \/ GetArtistRadio
    \/ GetFeatured
    \/ GetRecommendedNewTop
    \/ GetMoods
    \/ GetMoodPlaylists
    \/ GetMediaUrl
    \/ Search
    \/ AddArtist
    \/ RemoveArtist
    \/ AddAlbum
    \/ RemoveAlbum
    \/ AddTrack
    \/ RemoveTrack
    \/ FavoriteArtists
    \/ FavoriteAlbums
    \/ FavoritePlaylists
    \/ FavoriteTracks
    \/ UserPlaylists
    \/ Return

SpecCatalog == InitCatalog /\ [][NextCatalog]_vars

-----------------------------------------------------------------------------
(* Claims about login and check_login, checked under Spec *)

\* The transport answered with a 2xx status.
Is2xx(r) == ~r.failed /\ 200 <= r.status /\ r.status < 300

LoginEnded == pc = "done" /\ op.name = "login"

CheckLoginEnded == pc = "done" /\ op.name = "check_login"

\* The response of the ended login is 2xx with a body holding sessionId,
\* countryCode and userId.
LoginSucceeds ==
    /\ LoginEnded
    /\ Is2xx(resp)
    /\ IsJson(resp)
    /\ {"sessionId", "countryCode", "userId"} \subseteq DOMAIN resp.json

(* C1: after a login whose response is 2xx with body {sessionId: S,       *)
(* countryCode: C, userId: U}, whatever the session was before, the        *)
(* session has session_id = S, country_code = C and user.id = U, and the   *)
(* call returned true.                                                     *)
C1_LoginStoresSession ==
    LoginSucceeds =>
        /\ session_id = resp.json["sessionId"]
        /\ country_code = resp.json["countryCode"]
        /\ user # NoneObj
        /\ user.id = resp.json["userId"]
        /\ result = Returned(TRUE)

\* A login replaces a session seeded by Config; and one replaces the
\* session an earlier login left.
C1_Witness ==
    /\ LoginSucceeds
    /\ pre.session_id = "abc"
    /\ pre.country_code = "SE"
    /\ pre.user = User("42")
    /\ session_id = "S1"
    /\ country_code = "US"
    /\ user = User("7")

(* C2 as stated: where the user is unset, the user's id is empty or the   *)
(* session_id is unset (an empty session_id read as unset), check_login    *)
(* returns false and issues no request; in every other state it issues     *)
(* exactly one request and returns true exactly when the response is 2xx;  *)
(* the session is left unchanged.                                          *)
C2_AsStated ==
    CheckLoginEnded =>
        /\ Sess = pre
        /\ IF \/ pre.user = NoneObj
              \/ pre.user.id \in {"", None}
              \/ pre.session_id \in {"", None}
           THEN result = Returned(FALSE) /\ sent = <<>>
           ELSE /\ Len(sent) = 1
                /\ (~result.raised /\ result.value) <=> Is2xx(resp)

(* C2, amended: where the user is unset, the user's id is empty or None,  *)
(* or the session_id is unset or empty, check_login returns false and      *)
(* issues no request; in every other state it issues exactly one request,  *)
(* raises when the transport fails, and otherwise returns true exactly     *)
(* when the status is not 4xx or 5xx; the session is left unchanged.       *)
C2_CheckLogin ==
    CheckLoginEnded =>
        /\ Sess = pre
        /\ IF \/ pre.user = NoneObj
              \/ pre.user.id \in {"", None}
              \/ pre.session_id \in {"", None}
           THEN result = Returned(FALSE) /\ sent = <<>>
           ELSE /\ Len(sent) = 1
                /\ sent[1].method = "GET"
                /\ IF resp.failed THEN result.raised
                   ELSE result = Returned(~(400 <= resp.status /\ resp.status < 600))

\* A logged-in session asks once and a 304 answer counts as valid.
C2_Witness ==
    /\ CheckLoginEnded
    /\ Len(sent) = 1
    /\ resp = NoBody(304)
    /\ result = Returned(TRUE)

(* C10: a login that fails leaves session_id, country_code and user as    *)
(* they were before the call.                                              *)
C10_FailedLoginLeavesSession ==
    (LoginEnded /\ result.raised) => Sess = pre

-----------------------------------------------------------------------------
(* Claims about request, _map_request and search, checked under SpecCatalog *)

\* A call has ended that sent its request through Session.request.
RequestEnded ==
    /\ pc = "done"
    /\ op.name \notin {"none", "login", "check_login"}
    /\ sent # <<>>

\* The params the ended call handed to Session.request, as a dict.
Supplied ==
    CASE op.name = "request" -> IF op.params = NoneObj THEN <<>> ELSE op.params
      [] op.name = "get_artist_radio" -> [limit |-> "100"]
      [] op.name = "search" -> [query |-> op.value, limit |-> "50"]
      [] op.name = "get_artist_albums_ep_singles" -> [filter |-> "EPSANDSINGLES"]
      [] op.name = "get_artist_albums_other" -> [filter |-> "COMPILATIONS"]
      [] op.name = "get_media_url" -> [soundQuality |-> quality]
      [] OTHER -> <<>>

\* The request carries the three injected keys and the caller's; the
\* caller's values win key by key; the injected ones are the session's.
CarriesInjected(q, p) ==
    /\ DOMAIN q = {"sessionId", "countryCode", "limit"} \cup DOMAIN p
    /\ \A k \in DOMAIN p : q[k] = p[k]
    /\ "sessionId" \notin DOMAIN p => q["sessionId"] = session_id
    /\ "countryCode" \notin DOMAIN p => q["countryCode"] = country_code
    /\ "limit" \notin DOMAIN p => q["limit"] = "9999"

(* C3: every request sent through Session.request carries sessionId,      *)
(* countryCode and limit; for keys the caller did not supply they are the  *)
(* session's session_id and country_code at the moment of the call, which  *)
(* are those of the most recent successful login once there was one, and   *)
(* limit is '9999'; a caller's parameter replaces only its own key.        *)
C3_InjectedParams ==
    RequestEnded =>
        /\ CarriesInjected(sent[1].params, Supplied)
        /\ ("sessionId" \notin DOMAIN Supplied /\ lastLogin # NoneObj)
                => sent[1].params["sessionId"] = lastLogin["sessionId"]
        /\ ("countryCode" \notin DOMAIN Supplied /\ lastLogin # NoneObj)
                => sent[1].params["countryCode"] = lastLogin["countryCode"]

(* C3, the part about the moment of the call alone: the injected values   *)
(* are the session's own when the request is sent.                         *)
C3_AtCallTime == RequestEnded => CarriesInjected(sent[1].params, Supplied)

SearchEnded == pc = "done" /\ op.name = "search"

ValidFields == {"artist", "album", "playlist", "track"}

(* C4: search with a field outside {artist, album, playlist, track} fails *)
(* with ValueError, issues no request and leaves the session unchanged.    *)
C4_SearchInvalidField ==
    (SearchEnded /\ op.field \notin ValidFields) =>
        /\ result = Raised("ValueError")
        /\ sent = <<>>
        /\ Sess = pre

\* An invalid field is refused in a logged-in session.
C4_Witness ==
    /\ SearchEnded
    /\ op.field = "invalid"
    /\ result = Raised("ValueError")
    /\ session_id = "S1"

Populated(v) == v # NoneObj /\ v # PyList(<<>>)

\* The items of a body as _map_request normalizes them: each unwrapped
\* from its item field when the first one is wrapped.
Unwrapped(raw) ==
    IF Len(raw) > 0 /\ "item" \in DOMAIN raw[1]
    THEN [i \in 1..Len(raw) |-> raw[i]["item"]]
    ELSE raw

\* The models of the items xs under the normalizer parse, in order.
Models(parse, xs) == PyList([i \in 1..Len(xs) |-> Call(parse, xs[i]).value])

UserKindEnded ==
    /\ pc = "done"
    /\ \/ op.name = "get_user"
       \/ op.name = "_map_request" /\ StartsWith(op.ret, "user")
       \/ op.name = "get_recommended_new_top" /\ StartsWith(op.what, "user")

(* C6 as stated: a user result kind always fails with NotImplementedError, *)
(* for every response of the transport.                                    *)
C6_AsStated == UserKindEnded => result = Raised("NotImplementedError")

(* C6, amended: a user result kind never returns a model; the call issues *)
(* one request and fails with NotImplementedError exactly when the         *)
(* transport answers with a status that is not 4xx or 5xx and a body that  *)
(* decodes as JSON, and with the error of the request otherwise.           *)
C6_UserKind ==
    UserKindEnded =>
        /\ Len(sent) = 1
        /\ result.raised
        /\ result.error =
            (IF resp.failed THEN "ConnectionError"
             ELSE IF 400 <= resp.status /\ resp.status < 600 THEN "HTTPError"
             ELSE IF resp.body # "json" THEN "ValueError"
             ELSE "NotImplementedError")

\* get_user answered with a user's JSON.
C6_Witness ==
    /\ UserKindEnded
    /\ op.name = "get_user"
    /\ resp = JsonBody(200, [id |-> "42", username |-> "bob"])
    /\ result = Raised("NotImplementedError")

(* C7 as stated: every operation issues at most one request, and when     *)
(* that request, sent through Session.request or login, gets a non-2xx     *)
(* response or a transport failure, the operation fails with the           *)
(* transport error.                                                        *)
C7_AsStated ==
    pc = "done" =>
        /\ Len(sent) <= 1
        /\ (op.name # "check_login" /\ sent # <<>> /\ ~Is2xx(resp)) =>
                (result.raised /\ result.error \in {"ConnectionError", "HTTPError"})

(* C7, amended: every operation issues at most one request, and when that *)
(* request, sent through Session.request or login, gets a 4xx or 5xx       *)
(* response or a transport failure, the operation fails with the           *)
(* transport error and returns no value.                                   *)
C7_NoRetry ==
    pc = "done" =>
        /\ Len(sent) <= 1
        /\ (op.name # "check_login" /\ sent # <<>> /\ resp.failed) =>
                result = Raised("ConnectionError")
        /\ (op.name # "check_login" /\ sent # <<>> /\ ~resp.failed
                /\ 400 <= resp.status /\ resp.status < 600) =>
                result = Raised("HTTPError")

\* A favorite is not added on a 500 and the call is not repeated.
C7_Witness ==
    /\ pc = "done"
    /\ op.name = "favorites.add_artist"
    /\ resp = NoBody(500)
    /\ Len(sent) = 1
    /\ result = Raised("HTTPError")

\* _map_request has ended on a 2xx JSON object, for a result kind that
\* selects a normalizer.
MapEnded ==
    /\ pc = "done"
    /\ op.name = "_map_request"
    /\ Is2xx(resp)
    /\ IsJson(resp)
    /\ SelectParse(op.ret) \notin {None, "NotImplementedError"}

(* C8 as stated: without an items key _map_request applies the normalizer *)
(* once to the whole object and returns that single model, with or without *)
(* a filter; with an items key what it returns is always a sequence.       *)
C8_AsStated ==
    MapEnded =>
        IF "items" \notin DOMAIN resp.json
        THEN /\ result = Call(SelectParse(op.ret), resp.json)
             /\ ~result.raised => result.value.cls # "list"
        ELSE ~result.raised => result.value.cls = "list"

(* C8, amended: without an items key, or with items null, _map_request    *)
(* applies the normalizer once to the whole object and returns that        *)
(* single model, with or without a filter; with an items array what it     *)
(* returns is always a sequence.                                           *)
C8_SingleOrSequence ==
    MapEnded =>
        IF Get(resp.json, "items") = NoneObj
        THEN /\ result = Call(SelectParse(op.ret), resp.json)
             /\ ~result.raised => result.value.cls # "list"
        ELSE ~result.raised => result.value.cls = "list"

\* A single artist is returned although a filter was supplied.
C8_Witness ==
    /\ MapEnded
    /\ op.filter = TypeIsPlaylist
    /\ resp.json = A1
    /\ result = Returned(Artist("a1", "Ann"))

\* The result kind and the filter of the ended call.
EndedRet == IF op.name = "get_featured" THEN "featured_playlist" ELSE op.ret

EndedFilter == IF op.name = "get_featured" THEN TypeIsPlaylist ELSE op.filter

RECURSIVE Passing(_, _)
\* The items of raw that pass the filter f (all of them without one).
Passing(f, raw) ==
    IF raw = <<>> THEN <<>>
    ELSE (IF f = NoneObj \/ Head(raw)[f.key] = f.equals THEN <<Head(raw)>> ELSE <<>>)
            \o Passing(f, Tail(raw))

\* _map_request or get_featured has ended on a 2xx body with an items
\* array whose items all carry the filter's key, whose passing items are
\* all wrapped or all bare, and each of which the normalizer accepts.
MapItemsEnded ==
    /\ pc = "done"
    /\ op.name \in {"_map_request", "get_featured"}
    /\ Is2xx(resp)
    /\ IsJson(resp)
    /\ SelectParse(EndedRet) \notin {None, "NotImplementedError"}
    /\ Get(resp.json, "items") # NoneObj
    /\ LET raw == resp.json["items"].elems IN
        /\ EndedFilter # NoneObj => \A i \in 1..Len(raw) : EndedFilter.key \in DOMAIN raw[i]
        /\ LET kept == Passing(EndedFilter, raw) IN
            /\ \/ \A i \in 1..Len(kept) : "item" \in DOMAIN kept[i]
               \/ \A i \in 1..Len(kept) : "item" \notin DOMAIN kept[i]
            /\ \A i \in 1..Len(kept) :
                    ~Call(SelectParse(EndedRet), Unwrapped(kept)[i]).raised

(* C9: on a body with items _map_request returns a sequence with one      *)
(* model per item that passes the filter (every item without a filter),    *)
(* in response order, each the normalizer applied to the item's item       *)
(* field when the items are wrapped and to the item itself otherwise; the  *)
(* filter sees the raw items (get_featured returns exactly the promotions  *)
(* whose type is PLAYLIST).                                                *)
C9_MapsItemsInOrder ==
    MapItemsEnded =>
        result = Returned(Models(SelectParse(EndedRet),
                    Unwrapped(Passing(EndedFilter, resp.json["items"].elems))))

(* C9 on Python 2, where filter returns a list: the same statement.       *)
C9_OnPython2 == ~py3 => C9_MapsItemsInOrder

=============================================================================
